---- MODULE Spec2Model ----
(***************************************************************************)
(* Model of tools/unpack_data.py of LinoSPAD2app: the three unpackers      *)
(* unpack_binary_flex, unpack_numpy and unpack_calib.                      *)
(*                                                                         *)
(* One behaviour is one call of one of the three functions on one input    *)
(* file.  Real-valued picosecond quantities (Python/numpy float64) are     *)
(* kept in fixed point, in units of 1/Scale ps, so 17.857 ps is BinWidth   *)
(* and the float sentinel -1.0 is -Scale.  The integer (longlong) array of *)
(* unpack_calib holds integers and its sentinel is -1.                     *)
(***************************************************************************)
EXTENDS Integers, Sequences, FiniteSets

\* ------------------------------------------------------------------ bounds
MaxT == 2          \* lines_of_data / timestamps ranges over 1..MaxT
MaxCycles == 2     \* whole acquisition cycles in a file: 0..MaxCycles

\* ------------------------------------------------------- program constants
NPixels == 256         \* rows of the matrix, pixels per cycle
WordBytes == 4         \* f.read(4); np.uint32
BinWidth == 17857      \* 17.857 ps, in 1/Scale ps
NBins == 140           \* "% 140"

\* The packing loop of unpack_binary_flex counts k without bound; the model
\* follows it up to KCap outer iterations.
KCap == MaxCycles + 1

\* ------------------------------------------------------------- arithmetic
\* Python's and numpy's % and // on integers (floor).
PyMod(a, m) == IF a >= 0 THEN a % m ELSE (m - ((-a) % m)) % m
FloorDiv(a, m) == IF a >= 0 THEN a \div m ELSE -(((-a) + m - 1) \div m)

Min(a, b) == IF a <= b THEN a ELSE b
Max(a, b) == IF a >= b THEN a ELSE b

\* A 32-bit word is kept as its two 16-bit halves <<high, low>>, and a wide
\* integer (int64, or a real value in 1/Scale ps) as <<h, l>> standing for
\* h * Base + l with 0 <= l < Base; equal numbers have equal pairs.
Half == 2 ^ 16
Base == 10 ^ 9
Scale == 10 ^ 3      \* real values are kept in units of 1/Scale ps

Norm(h, l) == <<h + FloorDiv(l, Base), PyMod(l, Base)>>
Wide(x) == Norm(0, x)
Neg(x) == IF x[2] = 0 THEN <<-x[1], 0>> ELSE <<-x[1] - 1, Base - x[2]>>
IsNeg(x) == x[1] < 0
AddSmall(x, d) == Norm(x[1], x[2] + d)

\* c * BinWidth for 0 <= c < 2^28, by limbs of 10^4.
MulBinWidthNat(c) ==
    LET t == (c \div 10000) * BinWidth
        u == (c % 10000) * BinWidth
    IN Norm(t \div 100000, (t % 100000) * 10000 + u)
MulBinWidth(c) == IF c >= 0 THEN MulBinWidthNat(c) ELSE Neg(MulBinWidthNat(-c))

\* A wide x (in 1/Scale) cut to an integer the way a float is stored into an
\* int64 array: towards zero.
DivScaleNat(x) == <<x[1] \div Scale,
                    (x[1] % Scale) * (Base \div Scale) + x[2] \div Scale>>
TruncToInt(x) == IF IsNeg(x) THEN Neg(DivScaleNat(Neg(x))) ELSE DivScaleNat(x)

\* int(x) for a quotient a / b of non-negative integers: truncation.
IntDiv(a, b) == a \div b

\* Length of seq[a:b] (0 <= a <= b) for a sequence of length len: the slice
\* is clipped to the sequence.
SliceLen(len, a, b) == Max(0, Min(b, len) - Min(a, len))

\* ----------------------------------------------------------- input files
\* A file is its pattern and its length in bytes; word n of pattern p:
\*   dark    every word 0x00000000
\*   single  0x80000001, then zeros
\*   mixed   0x8000nnnn, 0x7FFFnnnn, 0xF000nnnn, 0x8FFFFFFF - n, in turn
Patterns == {"mixed", "dark", "single"}

Word(p, n) ==
    CASE p = "dark"   -> <<0, 0>>
      [] p = "single" -> IF n = 0 THEN <<32768, 1>> ELSE <<0, 0>>
      [] p = "mixed"  ->
           CASE n % 4 = 0 -> <<32768, n>>
             [] n % 4 = 1 -> <<32767, n>>
             [] n % 4 = 2 -> <<61440, n>>
             [] OTHER     -> <<36863, 65535 - n>>

\* Byte b of the file: the words are stored little-endian.
FileByte(p, b) ==
    LET w == Word(p, b \div WordBytes)
        h == IF b % WordBytes < 2 THEN w[2] ELSE w[1]
    IN IF b % 2 = 0 THEN h % 256 ELSE h \div 256

\* f.read(4) at byte position at: the bytes left, at most 4.
Read4(p, len, at) ==
    [j \in 1..Min(WordBytes, Max(0, len - at)) |-> FileByte(p, at + j - 1)]

\* unpack("<I", rawpacket)[0]
UnpackLE(raw) == <<raw[3] + 256 * raw[4], raw[1] + 256 * raw[2]>>

\* The word operations of the decoders.
Shr31(w) == w[1] \div 32768                      \* w >> 31
And27(w) == (w[1] % 2048) * Half + w[2]          \* w & 0x7FFFFFF: a bit short
And28(w) == (w[1] % 4096) * Half + w[2]          \* w & 0xFFFFFFF
Below31(w) == w[1] < 32768                       \* w < 0x80000000
Shr28And3(w) == (w[1] \div 4096) % 4             \* (w >> 28) & 0x3

\* File lengths: whole cycles, then nothing, a stray byte, or one or two
\* further words.
Tails == {0, 1, WordBytes, 2 * WordBytes}
FileSizes(T) ==
    {WordBytes * NPixels * T * c + x : c \in 0..MaxCycles, x \in Tails}

Functions == {"unpack_binary_flex", "unpack_numpy", "unpack_calib"}

VARIABLES
    fn,              \* the function called
    pattern, nbytes, \* the file
    lines_of_data,   \* the lines_of_data / timestamps argument
    pc,              \* position in the function, or its outcome
    err,             \* the exception raised, "" when none
    pos,             \* file position of unpack_binary_flex's reader
    timestamp_list, address_list,   \* unpack_binary_flex's lists
    data,            \* decoded flat array of unpack_numpy / unpack_calib
    data_matrix,     \* rows 0..255, each a sequence of columns
    k, i,            \* loop counters
    cal_mat,         \* the calibration table loaded ("" before)
    lookups,         \* <<row, column, bin>>: the cal_mat[row, bin] read for
                     \* each column by the last correction step
    raw_matrix       \* unpack_calib's matrix as reshaped, before correction

vars == <<fn, pattern, nbytes, lines_of_data, pc, err, pos, timestamp_list,
          address_list, data, data_matrix, k, i, cal_mat, lookups, raw_matrix>>

NoMatrix == [r \in 0..(NPixels - 1) |-> <<>>]

Init ==
    /\ fn \in Functions
    /\ pattern \in Patterns
    /\ lines_of_data \in 1..MaxT
    /\ nbytes \in FileSizes(lines_of_data)
    /\ pc = IF fn = "unpack_binary_flex" THEN "read" ELSE "decode"
    /\ err = ""
    /\ pos = 0
    /\ timestamp_list = <<>>
    /\ address_list = <<>>
    /\ data = <<>>
    /\ data_matrix = NoMatrix
    /\ k = 0
    /\ i = 0
    /\ cal_mat = ""
    /\ lookups = {}
    /\ raw_matrix = NoMatrix

\* ------------------------------------------------------ unpack_binary_flex
\* Lines 60-68: one word to a timestamp.
FlexTimestamp(w) ==
    IF Shr31(w) = 1
    THEN MulBinWidth(And28(w))
    ELSE Wide(-Scale)

\* Line 70.
FlexAddress(w) == Shr28And3(w)

\* Lines 55-72, one iteration that reads something: a whole word is decoded
\* and appended; fewer than 4 bytes make unpack raise struct.error.
FlexReadWord ==
    /\ fn = "unpack_binary_flex" /\ pc = "read"
    /\ LET rawpacket == Read4(pattern, nbytes, pos) IN
       /\ Len(rawpacket) > 0
       /\ IF Len(rawpacket) = WordBytes
          THEN /\ timestamp_list' = Append(timestamp_list, FlexTimestamp(UnpackLE(rawpacket)))
               /\ address_list' = Append(address_list, FlexAddress(UnpackLE(rawpacket)))
               /\ pos' = pos + WordBytes
               /\ UNCHANGED <<pc, err>>
          ELSE /\ pc' = "error" /\ err' = "struct.error"
               /\ UNCHANGED <<timestamp_list, address_list, pos>>
    /\ UNCHANGED <<fn, pattern, nbytes, lines_of_data, data, data_matrix, k, i,
                   cal_mat, lookups, raw_matrix>>

\* Line 74: np.zeros((256, int(len(timestamp_list) / 256))).
FlexColumns(n) == IntDiv(n, NPixels)
Zeros(cols) == [r \in 0..(NPixels - 1) |-> [c \in 1..cols |-> Wide(0)]]

\* Lines 57-58 and 74-80: end of file, the matrix is allocated, k = 0.
FlexEndOfFile ==
    /\ fn = "unpack_binary_flex" /\ pc = "read"
    /\ Len(Read4(pattern, nbytes, pos)) = 0
    /\ data_matrix' = Zeros(FlexColumns(Len(timestamp_list)))
    /\ k' = 0 /\ i' = 0
    /\ pc' = "pack"
    /\ UNCHANGED <<fn, pattern, nbytes, lines_of_data, err, pos, timestamp_list,
                   address_list, data, cal_mat, lookups, raw_matrix>>

\* Line 76 and the test of line 81: noc = len / lines_of_data / 256 is a
\* float; k != noc is false exactly when k * lines_of_data * 256 = len (the
\* quotient of a file of fewer than 2^53 words is an integer only when the
\* division is exact).
NocReached(kk, n, T) == kk * T * NPixels = n

\* The source offset with a cycle taken to be 255 pixels long.
SrcStartShort(ii, kk, T) == (ii + (NPixels - 1) * kk) * T

\* Lines 85 and 87-88: where the slices start.
DestStart(kk, T) == kk * T
SrcStart(ii, kk, T) == (ii + NPixels * kk) * T

\* numpy's assignment of a sequence of m values to a slice of n cells:
\* equal lengths copy, one value is broadcast, anything else raises.
\* (Lines 84-89.)
BroadcastOk(n, m) == m = n \/ m = 1

\* Lines 84-89: the row after data_matrix[ii][d : d+T] = timestamp_list[s : s+T]
PackRow(row, list, ii, kk, T) ==
    LET d == DestStart(kk, T)
        s == SrcStart(ii, kk, T)
        n == SliceLen(Len(row), d, d + T)
        m == SliceLen(Len(list), s, s + T)
    IN [c \in 1..Len(row) |->
          IF c > d /\ c <= d + n
          THEN (IF m = 1 THEN list[s + 1] ELSE list[s + (c - d)])
          ELSE row[c]]

PackRaises(row, list, ii, kk, T) ==
    LET d == DestStart(kk, T)
        s == SrcStart(ii, kk, T)
    IN ~BroadcastOk(SliceLen(Len(row), d, d + T), SliceLen(Len(list), s, s + T))

\* Lines 81-91: one pass of the inner loop body (with the k = k + 1 that
\* follows the last row).
FlexPackRow ==
    /\ fn = "unpack_binary_flex" /\ pc = "pack"
    /\ ~NocReached(k, Len(timestamp_list), lines_of_data)
    /\ k < KCap
    /\ IF PackRaises(data_matrix[i], timestamp_list, i, k, lines_of_data)
       THEN /\ pc' = "error" /\ err' = "ValueError"
            /\ UNCHANGED <<data_matrix, k, i>>
       ELSE /\ data_matrix' = [data_matrix EXCEPT
                 ![i] = PackRow(data_matrix[i], timestamp_list, i, k, lines_of_data)]
            /\ i' = IF i + 1 < NPixels THEN i + 1 ELSE 0
            /\ k' = IF i + 1 < NPixels THEN k ELSE k + 1
            /\ UNCHANGED <<pc, err>>
    /\ UNCHANGED <<fn, pattern, nbytes, lines_of_data, pos, timestamp_list,
                   address_list, data, cal_mat, lookups, raw_matrix>>

\* Lines 81 and 92: k == noc, the matrix is returned.
FlexReturn ==
    /\ fn = "unpack_binary_flex" /\ pc = "pack" /\ i = 0
    /\ NocReached(k, Len(timestamp_list), lines_of_data)
    /\ pc' = "done"
    /\ UNCHANGED <<fn, pattern, nbytes, lines_of_data, err, pos, timestamp_list,
                   address_list, data, data_matrix, k, i, cal_mat, lookups,
                   raw_matrix>>

\* ------------------------------------------------------------ numpy arrays
\* np.fromfile(filename, dtype=np.uint32): the whole words of the file, a
\* trailing partial word is left unread.
FromFile(p, len) ==
    [n \in 1..(len \div WordBytes) |-> UnpackLE(Read4(p, len, WordBytes * (n - 1)))]

\* An n-dimensional array over a flat buffer: its shape and, for each index
\* tuple (0-based), the buffer position (0-based) it shows.
Size(shape) ==
    CASE Len(shape) = 1 -> shape[1]
      [] Len(shape) = 2 -> shape[1] * shape[2]
      [] Len(shape) = 3 -> shape[1] * shape[2] * shape[3]

Indices(shape) ==
    CASE Len(shape) = 1 -> {<<a>> : a \in 0..(shape[1] - 1)}
      [] Len(shape) = 2 -> {<<a, b>> : a \in 0..(shape[1] - 1), b \in 0..(shape[2] - 1)}
      [] Len(shape) = 3 -> {<<a, b, c>> : a \in 0..(shape[1] - 1),
                                          b \in 0..(shape[2] - 1),
                                          c \in 0..(shape[3] - 1)}

\* Offset of an index in C order (last index fastest) and in Fortran order
\* (first index fastest).
COffset(shape, idx) ==
    CASE Len(shape) = 1 -> idx[1]
      [] Len(shape) = 2 -> idx[1] * shape[2] + idx[2]
      [] Len(shape) = 3 -> (idx[1] * shape[2] + idx[2]) * shape[3] + idx[3]

FOffset(shape, idx) ==
    CASE Len(shape) = 1 -> idx[1]
      [] Len(shape) = 2 -> idx[1] + shape[1] * idx[2]
      [] Len(shape) = 3 -> idx[1] + shape[1] * (idx[2] + shape[2] * idx[3])

CIndex(shape, off) ==
    CASE Len(shape) = 1 -> <<off>>
      [] Len(shape) = 2 -> <<off \div shape[2], off % shape[2]>>
      [] Len(shape) = 3 -> <<off \div (shape[2] * shape[3]),
                             (off \div shape[3]) % shape[2],
                             off % shape[3]>>

FIndex(shape, off) ==
    CASE Len(shape) = 1 -> <<off>>
      [] Len(shape) = 2 -> <<off % shape[1], off \div shape[1]>>
      [] Len(shape) = 3 -> <<off % shape[1],
                             (off \div shape[1]) % shape[2],
                             off \div (shape[1] * shape[2])>>

FlatArray(n) == [shape |-> <<n>>, at |-> [idx \in Indices(<<n>>) |-> idx[1]]]

\* A requested shape with its -1 entry worked out from the size.
Known(shape) ==
    CASE Len(shape) = 2 -> (IF shape[1] = -1 THEN 1 ELSE shape[1])
                           * (IF shape[2] = -1 THEN 1 ELSE shape[2])
      [] Len(shape) = 3 -> (IF shape[1] = -1 THEN 1 ELSE shape[1])
                           * (IF shape[2] = -1 THEN 1 ELSE shape[2])
                           * (IF shape[3] = -1 THEN 1 ELSE shape[3])
HasUnknown(shape) == \E a \in 1..Len(shape) : shape[a] = -1
Resolve(size, shape) ==
    [a \in 1..Len(shape) |-> IF shape[a] = -1 THEN size \div Known(shape) ELSE shape[a]]

\* ndarray.reshape raises ValueError when the sizes do not match.
ReshapeRaises(size, shape) ==
    IF HasUnknown(shape)
    THEN Known(shape) = 0 \/ size % Known(shape) # 0
    ELSE Size(shape) # size

\* ndarray.reshape(shape, order="F") and ndarray.reshape(shape): the
\* elements keep their Fortran-order (C-order) sequence.
ReshapeF(arr, shape) ==
    LET new == Resolve(Size(arr.shape), shape)
    IN [shape |-> new,
        at |-> [idx \in Indices(new) |-> arr.at[FIndex(arr.shape, FOffset(new, idx))]]]

ReshapeC(arr, shape) ==
    LET new == Resolve(Size(arr.shape), shape)
    IN [shape |-> new,
        at |-> [idx \in Indices(new) |-> arr.at[CIndex(arr.shape, COffset(new, idx))]]]

\* ndarray.transpose(axes): axis a of the result is axis axes[a] of arr
\* (axes 1-based here).
Transpose(arr, axes) ==
    LET new == [a \in 1..Len(axes) |-> arr.shape[axes[a]]]
        Inv(b) == CHOOSE a \in 1..Len(axes) : axes[a] = b
    IN [shape |-> new,
        at |-> [idx \in Indices(new) |-> arr.at[[b \in 1..Len(axes) |-> idx[Inv(b)]]]]]

\* A two-dimensional array of 256 rows over the buffer buf, as the matrix
\* of the model.
AsMatrix(arr, buf) ==
    [r \in 0..(NPixels - 1) |->
        [c \in 1..arr.shape[2] |-> buf[arr.at[<<r, c - 1>>] + 1]]]

\* ------------------------------------------------------------ unpack_numpy
\* Lines 97-98: one word of rawFile to one entry of data.
NumpyTimestamp(w) ==
    IF Below31(w) THEN Wide(-Scale) ELSE MulBinWidth(And28(w))

\* Lines 96-98.
NumpyDecode ==
    /\ fn = "unpack_numpy" /\ pc = "decode"
    /\ data' = [n \in 1..(nbytes \div WordBytes) |->
                   NumpyTimestamp(FromFile(pattern, nbytes)[n])]
    /\ pc' = "reshape"
    /\ UNCHANGED <<fn, pattern, nbytes, lines_of_data, err, pos, timestamp_list,
                   address_list, data_matrix, k, i, cal_mat, lookups, raw_matrix>>

\* Line 99 (and 139): int(len(data) / lines_of_data / 256).
CycleCount(n, T) == IntDiv(IntDiv(n, T), NPixels)

\* Lines 100-106: the chain of reshapes and transposes.
NumpyStep1(n, T) == ReshapeF(FlatArray(n), <<T, CycleCount(n, T) * NPixels>>)
NumpyStep2(n, T) == ReshapeF(NumpyStep1(n, T), <<T, NPixels, -1>>)
NumpyStep3Skipped(n, T) == NumpyStep2(n, T)     \* the transpose left out
NumpyStep3(n, T) == Transpose(NumpyStep2(n, T), <<1, 3, 2>>)
NumpyStep4(n, T) == ReshapeF(NumpyStep3(n, T), <<-1, NPixels>>)
NumpyStep5(n, T) == Transpose(NumpyStep4(n, T), <<2, 1>>)

\* The first reshape is the one that can fail: the later ones only regroup
\* T * nmrCycles * 256 elements.
NumpyChainRaises(n, T) == ReshapeRaises(n, <<T, CycleCount(n, T) * NPixels>>)

\* Lines 99-107.
NumpyReshape ==
    /\ fn = "unpack_numpy" /\ pc = "reshape"
    /\ IF NumpyChainRaises(Len(data), lines_of_data)
       THEN /\ pc' = "error" /\ err' = "ValueError"
            /\ UNCHANGED data_matrix
       ELSE /\ data_matrix' = AsMatrix(NumpyStep5(Len(data), lines_of_data), data)
            /\ pc' = "done"
            /\ UNCHANGED err
    /\ UNCHANGED <<fn, pattern, nbytes, lines_of_data, pos, timestamp_list,
                   address_list, data, k, i, cal_mat, lookups, raw_matrix>>

\* ------------------------------------------------------------ unpack_calib
\* Lines 135-137: one word of rawFile to one entry of data (longlong).
CalibCount(w) == IF Below31(w) THEN Wide(-1) ELSE Wide(And28(w))

\* Lines 133-137.
CalibDecode ==
    /\ fn = "unpack_calib" /\ pc = "decode"
    /\ data' = [n \in 1..(nbytes \div WordBytes) |->
                   CalibCount(FromFile(pattern, nbytes)[n])]
    /\ pc' = "reshape"
    /\ UNCHANGED <<fn, pattern, nbytes, lines_of_data, err, pos, timestamp_list,
                   address_list, data_matrix, k, i, cal_mat, lookups, raw_matrix>>

\* Lines 141-145.
CalibStep1(n, T) == ReshapeC(FlatArray(n), <<CycleCount(n, T), NPixels, T>>)
CalibStep2(n, T) == Transpose(CalibStep1(n, T), <<2, 1, 3>>)
CalibStep3(n, T) == ReshapeC(CalibStep2(n, T), <<NPixels, T * CycleCount(n, T)>>)

CalibChainRaises(n, T) == ReshapeRaises(n, <<CycleCount(n, T), NPixels, T>>)

\* Lines 139-145.  (raw_matrix keeps the matrix as reshaped.)
CalibReshape ==
    /\ fn = "unpack_calib" /\ pc = "reshape"
    /\ IF CalibChainRaises(Len(data), lines_of_data)
       THEN /\ pc' = "error" /\ err' = "ValueError"
            /\ UNCHANGED <<data_matrix, raw_matrix>>
       ELSE /\ data_matrix' = AsMatrix(CalibStep3(Len(data), lines_of_data), data)
            /\ raw_matrix' = data_matrix'
            /\ pc' = "load"
            /\ UNCHANGED err
    /\ UNCHANGED <<fn, pattern, nbytes, lines_of_data, pos, timestamp_list,
                   address_list, data, k, i, cal_mat, lookups>>

\* The tables calibrate_load (tools.calibrate, outside this file) may
\* return: 256 x 140 values in ps, here in 1/Scale ps.
\*   zero   every offset 0
\*   taps   offsets 0.333 .. 2499.333, different for every pixel and bin
\*   half   every offset -0.5
\*   minus  every offset -1
Tables == {"zero", "taps", "half", "minus"}

CalMat(t, r, b) ==
    CASE t = "zero"  -> 0
      [] t = "taps"  -> ((18 * b + r) % 2500) * Scale + 333
      [] t = "half"  -> -(Scale \div 2)
      [] t = "minus" -> -Scale

\* Lines 148-152: the loader returns a table, or raises FileNotFoundError,
\* which the except clause catches.
CalibLoad ==
    /\ fn = "unpack_calib" /\ pc = "load"
    /\ \/ /\ cal_mat' \in Tables
          /\ pc' = "correct"
          /\ i' = 0
          /\ UNCHANGED err
       \/ /\ pc' = "except"
          /\ err' = "FileNotFoundError"
          /\ UNCHANGED <<cal_mat, i>>
    /\ UNCHANGED <<fn, pattern, nbytes, lines_of_data, pos, timestamp_list,
                   address_list, data, data_matrix, k, lookups, raw_matrix>>

\* Lines 153-157: the handler prints its message and calls sys.exit(), which
\* ends the process.
CalibExit ==
    /\ fn = "unpack_calib" /\ pc = "except"
    /\ pc' = "exit"
    /\ err' = "SystemExit"
    /\ UNCHANGED <<fn, pattern, nbytes, lines_of_data, pos, timestamp_list,
                   address_list, data, data_matrix, k, i, cal_mat, lookups,
                   raw_matrix>>

\* The value of a wide integer that fits a machine word of the model.
ToInt(x) == x[1] * Base + x[2]

\* The selection with the test >= -1, which lets the sentinel through.
IndWithSentinel(row) == {c \in 1..Len(row) : row[c][1] >= -1}

\* Line 159: np.where(data_matrix[i] >= 0)[0]
Ind(row) == {c \in 1..Len(row) : ~IsNeg(row[c])}

\* Lines 161-162, for one selected cell holding v: the bin looked up and
\* the value stored back into the longlong matrix.
\* The float64 sum differs from the real value by less than 10^-5 ps; the
\* words and tables of the model keep every real value that is not exact in
\* float64 at least 1/Scale ps away from an integer, so the stored
\* (truncated) integer is that of the real value.
BinOffByOne(v) == PyMod(ToInt(v), NBins + 1)     \* "% 141"
Bin(v) == PyMod(ToInt(v), NBins)
Corrected(t, r, v) ==
    TruncToInt(AddSmall(MulBinWidth(ToInt(v) - Bin(v)), CalMat(t, r, Bin(v))))

\* Lines 158-162: one pass of the for loop.
CalibCorrectRow ==
    /\ fn = "unpack_calib" /\ pc = "correct" /\ i < NPixels
    /\ LET ind == Ind(data_matrix[i]) IN
       /\ lookups' = {<<i, c, Bin(data_matrix[i][c])>> : c \in ind}
       /\ data_matrix' = [data_matrix EXCEPT ![i] =
             [c \in 1..Len(data_matrix[i]) |->
                 IF c \in ind
                 THEN Corrected(cal_mat, i, data_matrix[i][c])
                 ELSE data_matrix[i][c]]]
    /\ i' = i + 1
    /\ UNCHANGED <<fn, pattern, nbytes, lines_of_data, pc, err, pos,
                   timestamp_list, address_list, data, k, cal_mat, raw_matrix>>

\* Line 163.
CalibReturn ==
    /\ fn = "unpack_calib" /\ pc = "correct" /\ i = NPixels
    /\ pc' = "done"
    /\ UNCHANGED <<fn, pattern, nbytes, lines_of_data, err, pos, timestamp_list,
                   address_list, data, data_matrix, k, i, cal_mat, lookups,
                   raw_matrix>>

Next ==
    \/ FlexReadWord
    \/ FlexEndOfFile
    \/ FlexPackRow
    \/ FlexReturn
    \/ NumpyDecode
    \/ NumpyReshape
    \/ CalibDecode
    \/ CalibReshape
    \/ CalibLoad
    \/ CalibExit
    \/ CalibCorrectRow
    \/ CalibReturn

Spec == Init /\ [][Next]_vars

\* ------------------------------------------------------------- the claims
NWords == nbytes \div WordBytes
WholeWords == nbytes % WordBytes = 0
Divisible == NWords % (NPixels * lines_of_data) = 0
Ended == pc \in {"done", "error", "exit"}

\* The claims' own reading of a word: bit 31, and the low 28 bits.
Bit31(w) == (w[1] \div (2 ^ 15)) % 2
Low28(w) == (w[1] - (w[1] \div (2 ^ 12)) * (2 ^ 12)) * (2 ^ 16) + w[2]
ScaledOrSentinel(w) == IF Bit31(w) = 0 THEN Wide(-Scale) ELSE MulBinWidth(Low28(w))
CountOrSentinel(w) == IF Bit31(w) = 0 THEN Wide(-1) ELSE Wide(Low28(w))

\* C1: when unpack_binary_flex gets N words with N divisible by 256 * T it
\* raises nothing and returns a matrix of 256 rows and T * C columns in which
\* cell [i][k*T + s] is the decoded value at flat offset (i + 256*k)*T + s.
C1_FlexLayout ==
    fn = "unpack_binary_flex" =>
      /\ (WholeWords /\ Divisible) => pc # "error"
      /\ pc = "done" =>
           LET N == Len(timestamp_list)
               T == lines_of_data
               C == N \div (NPixels * T)
           IN /\ N % (NPixels * T) = 0
              /\ DOMAIN data_matrix = 0..(NPixels - 1)
              /\ \A r \in 0..(NPixels - 1) : Len(data_matrix[r]) = T * C
              /\ \A kk \in 0..(C - 1), ii \in 0..(NPixels - 1), s \in 0..(T - 1) :
                    data_matrix[ii][kk * T + s + 1]
                        = timestamp_list[(ii + NPixels * kk) * T + s + 1]

\* C1's case: a returned matrix of two cycles of two slots each, whose last
\* row holds different values in its cycles.
C1_Witness ==
    /\ fn = "unpack_binary_flex" /\ pc = "done" /\ pattern = "mixed"
    /\ lines_of_data = 2 /\ Len(timestamp_list) = 2 * 2 * NPixels
    /\ data_matrix[NPixels - 1][1] # data_matrix[NPixels - 1][3]

\* C2: each decoder turns the n-th word of the file into the n-th decoded
\* value: the sentinel -1 when bit 31 is 0, whatever the other bits, and the
\* low 28 bits when bit 31 is 1, times 17.857 in unpack_binary_flex and
\* unpack_numpy and as they are in unpack_calib.
C2_Decode ==
    /\ (fn = "unpack_binary_flex" /\ pc = "read" /\ timestamp_list # <<>>) =>
          timestamp_list[Len(timestamp_list)]
              = ScaledOrSentinel(Word(pattern, Len(timestamp_list) - 1))
    /\ (fn = "unpack_binary_flex" /\ pc # "read" /\ k = 0 /\ i = 0) =>
          /\ Len(timestamp_list) = NWords
          /\ \A n \in 1..NWords :
                timestamp_list[n] = ScaledOrSentinel(Word(pattern, n - 1))
    /\ (fn = "unpack_numpy" /\ pc = "reshape") =>
          /\ Len(data) = NWords
          /\ \A n \in 1..NWords : data[n] = ScaledOrSentinel(Word(pattern, n - 1))
    /\ (fn = "unpack_calib" /\ pc = "reshape") =>
          /\ Len(data) = NWords
          /\ \A n \in 1..NWords : data[n] = CountOrSentinel(Word(pattern, n - 1))

\* C2's case: the file read to its end, with 0x7FFF0001 decoded to -1 and
\* 0xF0000002 and 0x8FFFFFFC to their low 28 bits times 17.857.
C2_Witness ==
    /\ fn = "unpack_binary_flex" /\ pc = "pack" /\ pattern = "mixed"
    /\ Len(timestamp_list) >= NPixels
    /\ timestamp_list[2] = Wide(-Scale)
    /\ timestamp_list[3] = Wide(2 * BinWidth)
    /\ timestamp_list[4] = MulBinWidth(2 ^ 28 - 4)

\* Some row copy from the current one on raises.
ErrorAhead ==
    \E kk \in k..(KCap - 1), ii \in 0..(NPixels - 1) :
        /\ kk > k \/ ii >= i
        /\ PackRaises(data_matrix[ii], timestamp_list, ii, kk, lines_of_data)

\* C3: a stream of whole words whose count is not a multiple of 256 * T makes
\* unpack fail with an error: no function returns a matrix, unpack_numpy and
\* unpack_calib end in the error of their reshape, and unpack_binary_flex,
\* once in its packing loop, is on its way to a copy that raises.
C3_GeometryError ==
    (WholeWords /\ ~Divisible) =>
      /\ pc # "done"
      /\ (fn # "unpack_binary_flex" /\ Ended) => (pc = "error" /\ err = "ValueError")
      /\ (fn = "unpack_binary_flex" /\ pc = "pack") => ErrorAhead

\* A wide integer (ps) in 1/Scale ps.
TimesScaleNat(x) == <<x[1] * Scale + x[2] \div (Base \div Scale),
                      (x[2] % (Base \div Scale)) * Scale>>
TimesScale(x) == IF IsNeg(x) THEN Neg(TimesScaleNat(Neg(x))) ELSE TimesScaleNat(x)

\* What the correction stores for a raw count v of pixel r, in 1/Scale ps,
\* as the claim states it.
ExactCorrection(t, r, v) ==
    AddSmall(MulBinWidth(ToInt(v) - (ToInt(v) % NBins)), CalMat(t, r, ToInt(v) % NBins))

\* C4: after the correction of a row, every cell whose raw count v was >= 0
\* holds exactly (v - v mod 140) * 17.857 + CalibrationTable[i][v mod 140].
C4_ExactCorrection ==
    (fn = "unpack_calib" /\ pc = "correct" /\ i > 0) =>
       \A c \in 1..Len(data_matrix[i - 1]) :
          ~IsNeg(raw_matrix[i - 1][c]) =>
             TimesScale(data_matrix[i - 1][c])
                 = ExactCorrection(cal_mat, i - 1, raw_matrix[i - 1][c])

Sentinels(m) ==
    Cardinality({rc \in (0..(NPixels - 1)) \X (1..Len(m[0])) : m[rc[1]][rc[2]] = Wide(-1)})

\* C5 as stated: for every calibration table, the matrix unpack_calib
\* returns has as many -1 cells as the reshaped matrix had.
C5_SentinelCountAnyTable ==
    (fn = "unpack_calib" /\ pc = "done") =>
        Sentinels(data_matrix) = Sentinels(raw_matrix)

\* C5: for every calibration table whose entries are all greater than -1 ps,
\* the matrix unpack_calib returns has as many -1 cells as the reshaped
\* matrix had.
C5_SentinelCount ==
    (/\ fn = "unpack_calib" /\ pc = "done"
     /\ \A r \in 0..(NPixels - 1), b \in 0..(NBins - 1) : CalMat(cal_mat, r, b) > -Scale) =>
        Sentinels(data_matrix) = Sentinels(raw_matrix)

\* C5's case: a corrected matrix with -1 cells and corrected cells, under a
\* table of negative offsets above -1.
C5_Witness ==
    /\ fn = "unpack_calib" /\ pc = "done" /\ cal_mat = "half"
    /\ Sentinels(raw_matrix) > 0
    /\ data_matrix # raw_matrix

\* C6: a file whose length is not a multiple of 4 bytes is never unpacked
\* to a matrix: every function ends in an error.
C6_FormatError ==
    ~WholeWords => /\ pc # "done"
                   /\ Ended => pc = "error"

\* C7: when the loader fails with its not-found condition, unpack_calib
\* hands an error back to its caller; the process goes on.
C7_CalibrationUnavailable ==
    [][(fn = "unpack_calib" /\ pc = "except") => pc' = "error"]_vars

\* C8: unpack_numpy's chain and unpack_calib's chain put the flat element at
\* SrcStart(i, k, T) + s into row i, column DestStart(k, T) + s, the cell
\* unpack_binary_flex's copy puts it in, and unpack_numpy's matrix holds
\* there what unpack_binary_flex decodes from that word.
C8_ReshapeAgree ==
    ((fn = "unpack_numpy" /\ pc = "done") \/ (fn = "unpack_calib" /\ pc = "load")) =>
       LET T == lines_of_data
           C == Len(data) \div (NPixels * T)
       IN /\ Len(data) = NPixels * T * C
          /\ \A ii \in 0..(NPixels - 1) :
                /\ Len(data_matrix[ii]) = FlexColumns(Len(data))
                /\ \A kk \in 0..(C - 1), s \in 1..T :
                      /\ data_matrix[ii][DestStart(kk, T) + s]
                             = data[SrcStart(ii, kk, T) + s]
                      /\ fn = "unpack_numpy" =>
                            data_matrix[ii][DestStart(kk, T) + s]
                               = FlexTimestamp(Word(pattern, SrcStart(ii, kk, T) + s - 1))

\* C8's case: unpack_numpy has returned two cycles of two slots.
C8_Witness ==
    /\ fn = "unpack_numpy" /\ pc = "done" /\ pattern = "mixed"
    /\ lines_of_data = 2 /\ Len(data) = 2 * 2 * NPixels
    /\ data_matrix[NPixels - 1][1] # data_matrix[NPixels - 1][3]

\* C9: the packing loop of unpack_binary_flex ends.  It ends only with
\* k = noc or with a copy that raises, k grows by one in every pass and no
\* copy raises once k is past noc, so k never gets past noc.
C9_PackLoopTerminates ==
    (fn = "unpack_binary_flex" /\ pc = "pack") =>
        k * lines_of_data * NPixels <= Len(timestamp_list)

\* C10: a step of the correction loop reads cal_mat only at rows 0..255 and
\* bins 0..139, only for cells that hold a value >= 0, and leaves every cell
\* that holds -1, and every other row, as it was.
C10_SentinelGuard ==
    [][(fn = "unpack_calib" /\ pc = "correct" /\ i < NPixels) =>
         /\ \A p \in lookups' :
               /\ p[1] = i /\ p[1] \in 0..(NPixels - 1)
               /\ p[3] \in 0..(NBins - 1)
               /\ ~IsNeg(data_matrix[i][p[2]])
               /\ p[3] = ToInt(data_matrix[i][p[2]]) % NBins
         /\ \A c \in 1..Len(data_matrix[i]) :
               data_matrix[i][c] = Wide(-1) =>
                  /\ data_matrix'[i][c] = Wide(-1)
                  /\ \A p \in lookups' : p[2] # c
         /\ \A r \in 0..(NPixels - 1) : r # i => data_matrix'[r] = data_matrix[r]
      ]_vars

\* C10's case: a row with a -1 cell and a valid cell has just been
\* corrected.
C10_Witness ==
    /\ fn = "unpack_calib" /\ pc = "correct" /\ i > 0
    /\ lookups # {}
    /\ \E c \in 1..Len(raw_matrix[i - 1]) : raw_matrix[i - 1][c] = Wide(-1)
    /\ \E c \in 1..Len(raw_matrix[i - 1]) : raw_matrix[i - 1][c] = Wide(2 * (i - 1))


====
